---- MODULE Spec2Model ----
(***************************************************************************)
(* State-machine model of the accounts application: the relational store   *)
(* (conversations, messages, tasks, teams) and the request handlers of     *)
(* accounts/views.py and accounts/serializers.py that read and write it.   *)
(***************************************************************************)
EXTENDS Integers, Sequences, FiniteSets, TLC

\* ---------------------------------------------------------------- bounds
\* Rows the conversation and message tables hold together.
MaxRows == 3

\* The user table is fixed: three rows with ids 1, 2, 3.  NoUser is an id
\* that names no row (User.objects.get raises DoesNotExist for it).
Users == {1, 2, 3}
NoUser == 0
NoConv == 0

\* Requests in progress at the same time (one per worker).
NumProcs == 2
Procs == 1..NumProcs

\* Rows of the task table, and subtask entries in one request body.
MaxTasks == 3
MaxBatch == 2

\* Teams created in one run.
MaxTeams == 1

VARIABLES conversations, nextConvId, messages, nextMsgId, now, sentLog, resp,
          req, tasks, nextTaskId, teams, nextTeamId, credential, is_active,
          pwreq

vars == <<conversations, nextConvId, messages, nextMsgId, now, sentLog, resp,
          req, tasks, nextTaskId, teams, nextTeamId, credential, is_active,
          pwreq>>

taskVars == <<tasks, nextTaskId>>

teamVars == <<teams, nextTeamId>>

accountVars == <<credential, is_active, pwreq>>

chatVars == <<conversations, nextConvId, messages, nextMsgId, now, sentLog>>

\* ------------------------------------------------------- the store (ORM)

\* The pair taken in the order the caller gave it.
SortedPair_Unsorted(a, b) == <<a, b>>

\* sorted([user1, user2], key=lambda u: u.id)
SortedPair(a, b) == IF b < a THEN <<b, a>> ELSE <<a, b>>

\* Conversation.save: store user1 as the one with the smaller id.
ConversationSave(u1, u2) == IF u1 > u2 THEN <<u2, u1>> ELSE <<u1, u2>>

\* Conversation.objects.get(user1=u1, user2=u2): the matching rows.
ConvGet(convs, u1, u2) == {c \in convs : c.user1 = u1 /\ c.user2 = u2}

\* A table without the constraint: no insert conflicts.
UniqueConflict_None(convs, u1, u2) == FALSE

\* UniqueConstraint(fields=["user1", "user2"]): would the insert conflict?
UniqueConflict(convs, u1, u2) == \E c \in convs : c.user1 = u1 /\ c.user2 = u2

\* Conversation.objects.create(user1=u1, user2=u2): save() canonicalises,
\* then the insert is subject to the unique constraint (IntegrityError).
ConvCreate(convs, nid, u1, u2) ==
    LET p == ConversationSave(u1, u2)
        row == [id |-> nid, user1 |-> p[1], user2 |-> p[2]]
    IN IF UniqueConflict(convs, p[1], p[2])
       THEN [ok |-> FALSE, row |-> row, convs |-> convs]
       ELSE [ok |-> TRUE, row |-> row, convs |-> convs \cup {row}]

\* get_or_create_conversation run without interference: QuerySet.get_or_create
\* is get(); on DoesNotExist create(); on IntegrityError get() again, and the
\* IntegrityError is re-raised when that second get() finds nothing.
GetOrCreateConversation(convs, nid, a, b) ==
    LET k == SortedPair(a, b)
        found == ConvGet(convs, k[1], k[2])
    IN IF found # {}
       THEN [ok |-> TRUE, created |-> FALSE, row |-> CHOOSE c \in found : TRUE,
             convs |-> convs]
       ELSE LET ins == ConvCreate(convs, nid, k[1], k[2])
                again == ConvGet(convs, k[1], k[2])
            IN IF ins.ok
               THEN [ok |-> TRUE, created |-> TRUE, row |-> ins.row,
                     convs |-> ins.convs]
               ELSE IF again # {}
                    THEN [ok |-> TRUE, created |-> FALSE,
                          row |-> CHOOSE c \in again : TRUE, convs |-> convs]
                    ELSE [ok |-> FALSE, created |-> FALSE, row |-> ins.row,
                          convs |-> convs]

\* conversation.messages: the messages of one conversation.
MessagesOf(msgs, cid) == {m \in msgs : m.conversation = cid}

\* All sequences that enumerate the set S once each.
SeqsOver(S) ==
    {s \in [1..Cardinality(S) -> S] : \A i, j \in DOMAIN s : i # j => s[i] # s[j]}

\* The rows in any order at all.
OrderByTimestamp_Unordered(S) == SeqsOver(S)

\* .order_by("timestamp"): any enumeration with non-decreasing timestamps;
\* the order of rows with equal timestamps is left to the database.
OrderByTimestamp(S) ==
    {s \in SeqsOver(S) :
        \A i, j \in DOMAIN s : i < j => s[i].timestamp <= s[j].timestamp}

\* timestamp = DateTimeField(auto_now_add=True): the instant read from the
\* clock at the insert.  The clock does not run backwards, and two inserts
\* may read the same instant.
ClockRead(last) == {last, last + 1}

\* Message.objects.create(conversation=..., sender=..., text=...)
MessageCreate(nid, cid, sender, t) ==
    [id |-> nid, conversation |-> cid, sender |-> sender, timestamp |-> t]

\* The ids of a sequence of message rows, in their order.
Ids(s) == [i \in DOMAIN s |-> s[i].id]

\* What a read handler answers: the HTTP status and the ids of the message
\* rows in the body, in their order.  The variable resp keeps the status of
\* the last answer only.
Reply(status, items) == [status |-> status, items |-> items]

\* The bound of the model: the two tables hold at most MaxRows rows.
RowsFit(convs, msgs) == Cardinality(convs) + Cardinality(msgs) <= MaxRows

\* ------------------------------------------------------- chat handlers

\* SendMessageView.post
SendMessage(caller, receiver_id, hasText) ==
    IF receiver_id \notin Users
    THEN /\ resp' = 500
         /\ UNCHANGED chatVars
    ELSE LET goc == GetOrCreateConversation(conversations, nextConvId,
                                            caller, receiver_id)
         IN /\ conversations' = goc.convs
            /\ nextConvId' = IF goc.created THEN nextConvId + 1 ELSE nextConvId
            /\ IF ~goc.ok \/ ~hasText
               THEN /\ resp' = 500
                    /\ RowsFit(conversations', messages)
                    /\ UNCHANGED <<messages, nextMsgId, now, sentLog>>
               ELSE /\ now' \in ClockRead(now)
                    /\ messages' = messages \cup
                          {MessageCreate(nextMsgId, goc.row.id, caller, now')}
                    /\ RowsFit(conversations', messages')
                    /\ nextMsgId' = nextMsgId + 1
                    /\ sentLog' = sentLog \cup
                          {[id |-> nextMsgId, from |-> caller, to |-> receiver_id]}
                    /\ resp' = 201

\* ChatHistoryView.get: the answers it can give, with the store it leaves.
ChatHistoryView(convs, nid, msgs, caller, user_id) ==
    IF user_id \notin Users
    THEN {[convs |-> convs, created |-> FALSE, reply |-> Reply(500, <<>>)]}
    ELSE LET goc == GetOrCreateConversation(convs, nid, caller, user_id)
         IN IF ~goc.ok
            THEN {[convs |-> goc.convs, created |-> FALSE,
                   reply |-> Reply(500, <<>>)]}
            ELSE {[convs |-> goc.convs, created |-> goc.created,
                   reply |-> Reply(200, Ids(s))] :
                     s \in OrderByTimestamp(MessagesOf(msgs, goc.row.id))}

ChatHistory(caller, user_id) ==
    \E out \in ChatHistoryView(conversations, nextConvId, messages,
                                caller, user_id) :
        /\ conversations' = out.convs
        /\ nextConvId' = IF out.created THEN nextConvId + 1 ELSE nextConvId
        /\ RowsFit(conversations', messages)
        /\ resp' = out.reply.status
        /\ UNCHANGED <<messages, nextMsgId, now, sentLog>>

\* The listing without the participant check.
MessageByConversationList_NoGate(convs, msgs, caller, conversation_id) ==
    IF \E c \in convs : c.id = conversation_id
    THEN {Reply(200, Ids(s)) :
             s \in OrderByTimestamp(MessagesOf(msgs, conversation_id))}
    ELSE {Reply(500, <<>>)}

\* MessageByConversationAPIView.get_queryset, as listed by GET: the answers
\* it can give.  A conversation_id naming no row raises DoesNotExist.
MessageByConversationList(convs, msgs, caller, conversation_id) ==
    LET found == {c \in convs : c.id = conversation_id}
        conversation == CHOOSE c \in found : TRUE
    IN IF found = {}
       THEN {Reply(500, <<>>)}
       ELSE IF caller \notin {conversation.user1, conversation.user2}
            THEN {Reply(200, <<>>)}
            ELSE {Reply(200, Ids(s)) :
                     s \in OrderByTimestamp(MessagesOf(msgs, conversation_id))}

ListMessages(caller, conversation_id) ==
    /\ \E reply \in MessageByConversationList(conversations, messages,
                                               caller, conversation_id) :
          resp' = reply.status
    /\ UNCHANGED chatVars

\* MessageByConversationAPIView.post / perform_create.  MessageSerializer
\* requires "text" and a valid "conversation" key in the body (400
\* otherwise); perform_create then replaces the conversation by the one the
\* URL names and sets the sender to the caller.
AppendMessage(caller, conversation_id, bodyValid) ==
    LET found == {c \in conversations : c.id = conversation_id}
    IN IF ~bodyValid
       THEN /\ resp' = 400
            /\ UNCHANGED chatVars
       ELSE IF found = {}
            THEN /\ resp' = 500
                 /\ UNCHANGED chatVars
            ELSE /\ now' \in ClockRead(now)
                 /\ messages' = messages \cup
                       {MessageCreate(nextMsgId, conversation_id, caller, now')}
                 /\ RowsFit(conversations, messages')
                 /\ nextMsgId' = nextMsgId + 1
                 /\ resp' = 201
                 /\ UNCHANGED <<conversations, nextConvId, sentLog>>

\* ConversationListCreateAPIView.post / perform_create: every field of
\* ConversationSerializer is read-only, so the row is built with user1 =
\* caller and no user2, and Conversation.save raises on reading self.user2
\* before anything is written.
CreateConversation(caller) ==
    /\ resp' = 500
    /\ UNCHANGED chatVars

\* ConversationListCreateAPIView.get_queryset: the conversations that
\* include the caller.
ConversationList(convs, caller) ==
    {c \in convs : c.user1 = caller \/ c.user2 = caller}

\* ConversationListCreateAPIView.get
ListConversations(caller) ==
    /\ resp' = Reply(200, ConversationList(conversations, caller)).status
    /\ UNCHANGED chatVars

\* A worker that handles no request: its position and empty locals.
Idle == [pc |-> "idle", op |-> "none", caller |-> NoUser, other |-> NoUser,
         row |-> NoConv, msg |-> 0, fresh |-> FALSE, conflict |-> FALSE]

\* The users whose credential the set-password endpoint is asked to set.
Accounts == {1, 2}

\* What user.password can hold: the marker set_unusable_password leaves, or
\* the hash make_password draws from a raw password and a salt.
Passwords == {"p", "q"}
Salts == {"s", "t"}
UnusablePassword == [usable |-> FALSE, raw |-> "!", salt |-> "!"]
make_password(raw, salt) == [usable |-> TRUE, raw |-> raw, salt |-> salt]
Credentials ==
    {UnusablePassword} \cup {make_password(r, s) : r \in Passwords, s \in Salts}

\* A worker that handles no set-password request.
PwIdle == [pc |-> "idle", user |-> NoUser, password |-> "!"]

\* The tables empty and no request under way.
InitStore ==
    /\ conversations = {}
    /\ nextConvId = 1
    /\ messages = {}
    /\ nextMsgId = 1
    /\ now = 0
    /\ sentLog = {}
    /\ resp = 0
    /\ req = [p \in Procs |-> Idle]
    /\ tasks = {}
    /\ nextTaskId = 1
    /\ teams = {}
    /\ nextTeamId = 1
    /\ pwreq = [p \in Procs |-> PwIdle]

\* The state the chat, task and team requests start from: the accounts as
\* CreateUserSerializer.create leaves them.
InitChat ==
    /\ InitStore
    /\ credential = [u \in Accounts |-> UnusablePassword]
    /\ is_active = [u \in Accounts |-> FALSE]

\* The conversation ids a request can name: those in use and one that is not.
ConvIds == 1..nextConvId

ChatRequest ==
    \/ \E u \in Users, r \in Users \cup {NoUser}, t \in BOOLEAN :
          SendMessage(u, r, t)
    \/ \E u \in Users, r \in Users \cup {NoUser} : ChatHistory(u, r)
    \/ \E u \in Users, c \in ConvIds : ListMessages(u, c)
    \/ \E u \in Users, c \in ConvIds, v \in BOOLEAN : AppendMessage(u, c, v)
    \/ \E u \in Users : CreateConversation(u)
    \/ \E u \in Users : ListConversations(u)

\* One request at a time, each handled from start to end.
NextChat == ChatRequest /\ UNCHANGED <<req, taskVars, teamVars, accountVars>>

SpecChat == InitChat /\ [][NextChat]_vars

\* ------------------------------------------- chat requests, interleaved
\* The same handlers run by several workers at once against the one store
\* (autocommit: every query is its own transaction).  A request is started
\* once per worker; req[p] is that worker's position and locals.  The
\* requests are well-formed: the other user exists and the body has a text.

\* The users whose requests race: two, who write to each other and to
\* themselves.
Racers == {1, 2}

\* The pair a request looks up: get_or_create_conversation's sorted pair.
Key(r) == SortedPair(r.caller, r.other)

\* SendMessageView.post / ChatHistoryView.get up to the call of
\* get_or_create_conversation: the request is read and the other user
\* fetched.  fresh records whether the pair had no conversation then.
Start(p, op, caller, other) ==
    /\ req[p].pc = "idle"
    /\ req' = [req EXCEPT ![p] =
                  [Idle EXCEPT !.pc = "get", !.op = op, !.caller = caller,
                               !.other = other,
                               !.fresh = ~\E c \in conversations :
                                   {c.user1, c.user2} = {caller, other}]]
    /\ UNCHANGED <<chatVars, resp, taskVars, teamVars, accountVars>>

\* QuerySet.get_or_create, first step: self.get(**kwargs).
Get(p) ==
    LET k == Key(req[p])
        found == ConvGet(conversations, k[1], k[2])
    IN /\ req[p].pc = "get"
       /\ req' = [req EXCEPT ![p] =
                     IF found # {}
                     THEN [@ EXCEPT !.pc = "have",
                                    !.row = (CHOOSE c \in found : TRUE).id]
                     ELSE [@ EXCEPT !.pc = "create"]]
       /\ UNCHANGED <<chatVars, resp, taskVars, teamVars, accountVars>>

\* QuerySet.get_or_create, on DoesNotExist: self.create(**params) inside
\* transaction.atomic(); an IntegrityError is caught.
Create(p) ==
    LET k == Key(req[p])
        ins == ConvCreate(conversations, nextConvId, k[1], k[2])
    IN /\ req[p].pc = "create"
       /\ conversations' = ins.convs
       /\ nextConvId' = IF ins.ok THEN nextConvId + 1 ELSE nextConvId
       /\ req' = [req EXCEPT ![p] =
                     IF ins.ok
                     THEN [@ EXCEPT !.pc = "have", !.row = ins.row.id]
                     ELSE [@ EXCEPT !.pc = "reget", !.conflict = TRUE]]
       /\ UNCHANGED <<messages, nextMsgId, now, sentLog, resp, taskVars, teamVars, accountVars>>

\* A plain create after the failed lookup: the IntegrityError reaches the
\* caller.
ReGet_Reraise(p) ==
    /\ req[p].pc = "reget"
    /\ req' = [req EXCEPT ![p] = [@ EXCEPT !.pc = "error"]]
    /\ UNCHANGED <<chatVars, resp, taskVars, teamVars, accountVars>>

\* QuerySet.get_or_create, on IntegrityError: self.get(**kwargs) again, and
\* the IntegrityError is re-raised when the row is still not found.
ReGet(p) ==
    LET k == Key(req[p])
        found == ConvGet(conversations, k[1], k[2])
    IN /\ req[p].pc = "reget"
       /\ req' = [req EXCEPT ![p] =
                     IF found # {}
                     THEN [@ EXCEPT !.pc = "have",
                                    !.row = (CHOOSE c \in found : TRUE).id]
                     ELSE [@ EXCEPT !.pc = "error"]]
       /\ UNCHANGED <<chatVars, resp, taskVars, teamVars, accountVars>>

\* The rest of the handler once it holds the conversation: sendMessage
\* inserts its message (201), the history read lists the messages (200).
Finish(p) ==
    /\ req[p].pc = "have"
    /\ IF req[p].op = "send"
       THEN /\ now' \in ClockRead(now)
            /\ messages' = messages \cup
                  {MessageCreate(nextMsgId, req[p].row, req[p].caller, now')}
            /\ nextMsgId' = nextMsgId + 1
            /\ sentLog' = sentLog \cup
                  {[id |-> nextMsgId, from |-> req[p].caller,
                    to |-> req[p].other]}
            /\ req' = [req EXCEPT ![p] = [@ EXCEPT !.pc = "done",
                                                   !.msg = nextMsgId]]
       ELSE /\ req' = [req EXCEPT ![p] = [@ EXCEPT !.pc = "done"]]
            /\ UNCHANGED <<messages, nextMsgId, now, sentLog>>
    /\ UNCHANGED <<conversations, nextConvId, resp, taskVars, teamVars, accountVars>>

\* ConversationListCreateAPIView.post: raises before anything is written.
RaceCreateConversation(p, caller) ==
    /\ req[p].pc = "idle"
    /\ req' = [req EXCEPT ![p] = [Idle EXCEPT !.pc = "error", !.op = "create",
                                              !.caller = caller]]
    /\ UNCHANGED <<chatVars, resp, taskVars, teamVars, accountVars>>

\* MessageByConversationAPIView.post with a valid body, on an existing
\* conversation: one lookup and one insert, which nothing can come between
\* (conversations are never deleted).
RaceAppendMessage(p, caller, conversation_id) ==
    /\ req[p].pc = "idle"
    /\ \E c \in conversations : c.id = conversation_id
    /\ now' \in ClockRead(now)
    /\ messages' = messages \cup
          {MessageCreate(nextMsgId, conversation_id, caller, now')}
    /\ nextMsgId' = nextMsgId + 1
    /\ req' = [req EXCEPT ![p] = [Idle EXCEPT !.pc = "done", !.op = "append",
                                              !.caller = caller,
                                              !.row = conversation_id,
                                              !.msg = nextMsgId]]
    /\ UNCHANGED <<conversations, nextConvId, sentLog, resp, taskVars, teamVars, accountVars>>

InitRace == InitChat

NextRace ==
    \E p \in Procs :
        \/ \E op \in {"send", "history"}, u \in Racers, r \in Racers :
              Start(p, op, u, r)
        \/ Get(p)
        \/ Create(p)
        \/ ReGet(p)
        \/ Finish(p)
        \/ \E u \in Racers : RaceCreateConversation(p, u)
        \/ \E u \in Users, c \in ConvIds : RaceAppendMessage(p, u, c)

SpecRace == InitRace /\ [][NextRace]_vars

\* ------------------------------------------------------------ tasks
\* A task row: id, created_by, parent_task (NoTask for null) and title,
\* which stands for the content fields (title, description, dates,
\* priority, status).

NoTask == 0
Titles == {"a", "b"}

\* The users who call the task endpoints: an owner and somebody else.
TaskCallers == {1, 2}

\* One element of "subtasks_data" as the client sends it: whether its
\* fields pass SubtaskCreateSerializer, whether its title fits the 255
\* characters of Task.title (the serializer's CharField has no max_length,
\* so it does not look), an "id" key (NoTask when absent) and the content.
\* The entries that do not pass are told apart no further.
Entries(ids) ==
    {e \in [valid : BOOLEAN, fits : BOOLEAN, id : ids \cup {NoTask},
            title : Titles] :
        ~e.valid => (e.fits /\ e.id = NoTask /\ e.title = "a")}

\* The task's own fields in a request body: whether they pass TaskSerializer
\* (a ModelSerializer, so the length of the title is part of that) and the
\* content. The bodies that do not pass are told apart no further.
MainBodies ==
    {m \in [valid : BOOLEAN, title : Titles] : ~m.valid => m.title = "a"}

\* The request bodies' subtask lists of up to most entries.
Batches(ids, most) == UNION {[1..n -> Entries(ids)] : n \in 0..most}

\* SubtaskCreateSerializer: the validated entry holds the declared fields
\* only; the serializer declares no id field, so an "id" key is dropped.
SubtaskValidated(entry) == [title |-> entry.title, fits |-> entry.fits]

\* sub.get("id")
SubGetId(sub) == IF "id" \in DOMAIN sub THEN sub.id ELSE NoTask

\* TaskSerializer.is_valid: the task's own fields and every entry of
\* subtasks_data must pass, before create or update is called.
BodyValid(mainValid, batch) ==
    mainValid /\ \A i \in DOMAIN batch : batch[i].valid

\* Task.objects.create(parent_task=..., created_by=..., **fields)
TaskRow(id, owner, parent, title) ==
    [id |-> id, created_by |-> owner, parent_task |-> parent, title |-> title]

\* Whether the database refuses to write the fields of sub: a title beyond
\* max_length=255 raises a DataError on a database that enforces the column
\* length (enforced), and is stored on one that does not.
StoreRejects(sub, enforced) == enforced /\ ~sub.fits

\* What a task view leaves behind: the response status, the task table and
\* the next id of the table.
TaskOutcome(status, rows, nid) == [status |-> status, rows |-> rows, nid |-> nid]

\* The loop of TaskSerializer.create over the validated entries, from entry
\* i on: each statement commits on its own, so a refused row ends the loop
\* with the rows before it in the table.
RECURSIVE CreateSubtasks(_, _, _, _, _, _, _)
CreateSubtasks(rows, nid, owner, parent, subs, i, enforced) ==
    IF i > Len(subs)
    THEN [ok |-> TRUE, rows |-> rows, nid |-> nid]
    ELSE IF StoreRejects(subs[i], enforced)
         THEN [ok |-> FALSE, rows |-> rows, nid |-> nid]
         ELSE CreateSubtasks(
                rows \cup {TaskRow(nid, owner, parent, subs[i].title)},
                nid + 1, owner, parent, subs, i + 1, enforced)

\* TaskViewSet.create -> TaskSerializer.create
CreateTaskView(rows, nid, caller, title, mainValid, batch, enforced) ==
    IF ~BodyValid(mainValid, batch)
    THEN TaskOutcome(400, rows, nid)
    ELSE LET subs == [i \in DOMAIN batch |-> SubtaskValidated(batch[i])]
             main_task == TaskRow(nid, caller, NoTask, title)
             out == CreateSubtasks(rows \cup {main_task}, nid + 1, caller,
                                   main_task.id, subs, 1, enforced)
         IN TaskOutcome(IF out.ok THEN 201 ELSE 500, out.rows, out.nid)

\* TaskViewSet.get_object: any task of the caller with this id.
GetObject(rows, caller, pk) ==
    {t \in rows : t.id = pk /\ t.created_by = caller}

\* The loop of TaskSerializer.update over the validated entries, from entry
\* i on: an entry with an id that names a subtask of instance rewrites that
\* row, an entry with an id that names none is skipped, an entry without id
\* adds a row; a refused write ends the loop.
RECURSIVE UpdateSubtasks(_, _, _, _, _, _, _)
UpdateSubtasks(rows, nid, owner, instance_id, subs, i, enforced) ==
    IF i > Len(subs)
    THEN [ok |-> TRUE, rows |-> rows, nid |-> nid]
    ELSE LET sub == subs[i]
             sub_id == SubGetId(sub)
             hit == {t \in rows : t.id = sub_id /\ t.parent_task = instance_id}
         IN IF sub_id # NoTask
            THEN IF hit = {}
                 THEN UpdateSubtasks(rows, nid, owner, instance_id, subs,
                                     i + 1, enforced)
                 ELSE IF StoreRejects(sub, enforced)
                      THEN [ok |-> FALSE, rows |-> rows, nid |-> nid]
                      ELSE UpdateSubtasks(
                             (rows \ hit) \cup
                               {[s EXCEPT !.title = sub.title] : s \in hit},
                             nid, owner, instance_id, subs, i + 1, enforced)
            ELSE IF StoreRejects(sub, enforced)
                 THEN [ok |-> FALSE, rows |-> rows, nid |-> nid]
                 ELSE UpdateSubtasks(
                        rows \cup {TaskRow(nid, owner, instance_id, sub.title)},
                        nid + 1, owner, instance_id, subs, i + 1, enforced)

\* TaskViewSet.update -> TaskSerializer.update
UpdateTaskView(rows, nid, caller, pk, title, mainValid, batch, enforced) ==
    LET found == GetObject(rows, caller, pk)
        instance == CHOOSE t \in found : TRUE
        subs == [i \in DOMAIN batch |-> SubtaskValidated(batch[i])]
        saved == (rows \ {instance}) \cup {[instance EXCEPT !.title = title]}
        out == UpdateSubtasks(saved, nid, caller, pk, subs, 1, enforced)
    IN IF found = {}
       THEN TaskOutcome(404, rows, nid)
       ELSE IF ~BodyValid(mainValid, batch)
            THEN TaskOutcome(400, rows, nid)
            ELSE TaskOutcome(IF out.ok THEN 200 ELSE 500, out.rows, out.nid)

\* get_object_or_404(Task, id=pk, created_by=request.user)
ParentForSubtask_AnyOwned(rows, caller, pk) ==
    {t \in rows : t.id = pk /\ t.created_by = caller}

\* get_object_or_404(Task, id=pk, created_by=request.user,
\*                   parent_task__isnull=True)
ParentForSubtask(rows, caller, pk) ==
    {t \in rows : t.id = pk /\ t.created_by = caller
                           /\ t.parent_task = NoTask}

\* TaskViewSet.add_subtask
AddSubtaskView(rows, nid, caller, pk, entry, enforced) ==
    IF ParentForSubtask(rows, caller, pk) = {}
    THEN TaskOutcome(404, rows, nid)
    ELSE IF ~entry.valid
         THEN TaskOutcome(400, rows, nid)
         ELSE IF StoreRejects(SubtaskValidated(entry), enforced)
              THEN TaskOutcome(500, rows, nid)
              ELSE TaskOutcome(201,
                               rows \cup {TaskRow(nid, caller, pk,
                                            SubtaskValidated(entry).title)},
                               nid + 1)

\* A request takes effect: the table, the id counter and the response.
TaskApply(out) ==
    /\ Cardinality(out.rows) <= MaxTasks
    /\ tasks' = out.rows
    /\ nextTaskId' = out.nid
    /\ resp' = out.status

CreateTask(caller, title, mainValid, batch, enforced) ==
    TaskApply(CreateTaskView(tasks, nextTaskId, caller, title, mainValid,
                             batch, enforced))

UpdateTask(caller, pk, title, mainValid, batch, enforced) ==
    TaskApply(UpdateTaskView(tasks, nextTaskId, caller, pk, title, mainValid,
                             batch, enforced))

AddSubtask(caller, pk, entry, enforced) ==
    TaskApply(AddSubtaskView(tasks, nextTaskId, caller, pk, entry, enforced))

\* The task ids a request can name: those handed out and one that is not.
TaskIds == 1..nextTaskId

\* The ids an entry's "id" key can carry: the ids of the rows in the table.
EntryIds == {t.id : t \in tasks}

\* The longest subtask list a request is drawn with: MaxBatch entries, or
\* as many as the table still has room for.
Room ==
    IF MaxTasks - Cardinality(tasks) < MaxBatch
    THEN MaxTasks - Cardinality(tasks)
    ELSE MaxBatch

TaskRequest ==
    \/ \E u \in TaskCallers, m \in MainBodies, b \in Batches(EntryIds, Room),
          enforced \in BOOLEAN :
          CreateTask(u, m.title, m.valid, b, enforced)
    \/ \E u \in TaskCallers, pk \in TaskIds, m \in MainBodies,
          b \in Batches(EntryIds, Room), enforced \in BOOLEAN :
          UpdateTask(u, pk, m.title, m.valid, b, enforced)
    \/ \E u \in TaskCallers, pk \in TaskIds, e \in Entries(EntryIds),
          enforced \in BOOLEAN :
          AddSubtask(u, pk, e, enforced)

NextTask == TaskRequest /\ UNCHANGED <<chatVars, req, teamVars, accountVars>>

SpecTask == InitChat /\ [][NextTask]_vars

\* ------------------------------------------------------------ teams
\* A team row: id, created_by, the members relation and name, which stands
\* for the content fields (name, description).

Names == {"n", "m"}

\* User.is_admin and User.is_teamlead of the three users: an admin, a team
\* lead and a user who is neither.
Admins == {1}
TeamLeads == {2}
is_admin(u) == u \in Admins
is_teamlead(u) == u \in TeamLeads

\* rest_framework.permissions.IsAuthenticated
IsAuthenticated(caller) == caller \in Users

\* permissions.IsAdminOrTeamLead.has_permission
IsAdminOrTeamLead(caller) ==
    IsAuthenticated(caller) /\ (is_admin(caller) \/ is_teamlead(caller))

\* views.IsTeamCreator.has_object_permission
IsTeamCreator(caller, obj) == obj.created_by = caller

\* TeamViewSet.get_permissions: what the action asks of the caller before
\* an object is looked up.
TeamPermission(action, caller) == IsAuthenticated(caller)

\* A request body for a team: whether it passes the serializer, the name, a
\* "members" key (hasMembers) with its user ids, and a "created_by" key
\* (NoUser when absent, a team lead when sent). The bodies that do not pass
\* are told apart no further.
TeamBodies ==
    {b \in [valid : BOOLEAN, name : Names, hasMembers : BOOLEAN,
            members : SUBSET Users, created_by : TeamLeads \cup {NoUser}] :
        /\ ~b.hasMembers => b.members = {}
        /\ ~b.valid => (b.name = "n" /\ ~b.hasMembers /\ b.created_by = NoUser)}

\* validated_data of TeamSerializer with a created_by field that can be
\* written.
TeamValidated_Writable(body) ==
    LET named == [name |-> body.name]
        withMembers == IF body.hasMembers
                       THEN [name |-> body.name, members |-> body.members]
                       ELSE named
    IN IF body.created_by = NoUser
       THEN withMembers
       ELSE IF body.hasMembers
            THEN [name |-> body.name, members |-> body.members,
                  created_by |-> body.created_by]
            ELSE [name |-> body.name, created_by |-> body.created_by]

\* validated_data of TeamSerializer and of CreateTeamSerializer: name and,
\* when sent, members; created_by is read-only in the one and not a field
\* of the other, so a "created_by" key is dropped.
TeamValidated(body) ==
    IF body.hasMembers
    THEN [name |-> body.name, members |-> body.members]
    ELSE [name |-> body.name]

\* validated_data.get(key, default)
DataGet(data, key, default) ==
    IF key \in DOMAIN data THEN data[key] ELSE default

\* What a team view leaves behind: the response status, the team table and
\* the next id of the table.
TeamOutcome(status, rows, nid) == [status |-> status, rows |-> rows, nid |-> nid]

\* TeamViewSet.create -> perform_create
CreateTeamView(rows, nid, caller, body) ==
    IF ~TeamPermission("create", caller)
    THEN TeamOutcome(401, rows, nid)
    ELSE IF ~body.valid
         THEN TeamOutcome(400, rows, nid)
         ELSE LET data == TeamValidated(body)
                  members == DataGet(data, "members", {})
                  \* serializer.save sets the members sent, then
                  \* members.add(user) and members.add(*members)
                  team == [id |-> nid, created_by |-> caller, name |-> data.name,
                           members |-> (members \cup {caller}) \cup members]
              IN TeamOutcome(201, rows \cup {team}, nid + 1)

\* TeamViewSet.get_queryset for update, partial_update and destroy, then the
\* lookup by pk.
TeamForChange(rows, caller, pk) ==
    {t \in rows : t.created_by = caller /\ t.id = pk}

\* team.members.add(*members): the relation gains the users given.
MembersSet_Add(old, members) == old \cup members

\* team.members.set(members): the relation becomes the users given.
MembersSet(old, members) == members

\* ModelSerializer.update: every validated field is written to the row.
TeamSave(team, data) ==
    [team EXCEPT !.name = DataGet(data, "name", @),
                 !.members = IF "members" \in DOMAIN data
                             THEN MembersSet(@, data.members)
                             ELSE @,
                 !.created_by = DataGet(data, "created_by", @)]

\* TeamViewSet.update -> perform_update
UpdateTeamView(rows, nid, caller, pk, body) ==
    LET found == TeamForChange(rows, caller, pk)
        instance == CHOOSE t \in found : TRUE
        data == TeamValidated(body)
        saved == TeamSave(instance, data)
        team == IF "members" \in DOMAIN data
                THEN [saved EXCEPT !.members = MembersSet(@, data.members)]
                ELSE saved
    IN IF ~TeamPermission("update", caller)
       THEN TeamOutcome(401, rows, nid)
       ELSE IF found = {}
            THEN TeamOutcome(404, rows, nid)
            ELSE IF ~IsTeamCreator(caller, instance)
                 THEN TeamOutcome(403, rows, nid)
                 ELSE IF ~body.valid
                      THEN TeamOutcome(400, rows, nid)
                      ELSE TeamOutcome(200, (rows \ {instance}) \cup {team},
                                       nid)

\* TeamViewSet.destroy
DeleteTeamView(rows, nid, caller, pk) ==
    LET found == TeamForChange(rows, caller, pk)
        instance == CHOOSE t \in found : TRUE
    IN IF ~TeamPermission("destroy", caller)
       THEN TeamOutcome(401, rows, nid)
       ELSE IF found = {}
            THEN TeamOutcome(404, rows, nid)
            ELSE IF ~IsTeamCreator(caller, instance)
                 THEN TeamOutcome(403, rows, nid)
                 ELSE TeamOutcome(204, rows \ {instance}, nid)

\* A request takes effect: the table, the id counter and the response.
TeamApply(out) ==
    /\ out.nid <= MaxTeams + 1
    /\ teams' = out.rows
    /\ nextTeamId' = out.nid
    /\ resp' = out.status

CreateTeam(caller, body) ==
    TeamApply(CreateTeamView(teams, nextTeamId, caller, body))

UpdateTeam(caller, pk, body) ==
    TeamApply(UpdateTeamView(teams, nextTeamId, caller, pk, body))

DeleteTeam(caller, pk) ==
    TeamApply(DeleteTeamView(teams, nextTeamId, caller, pk))

\* Who sends a team request: a user, or nobody who is logged in.
TeamCallers == Users \cup {NoUser}

\* The team ids a request can name: those handed out and one that is not.
TeamIds == 1..nextTeamId

TeamRequest ==
    \/ \E u \in TeamCallers, b \in TeamBodies : CreateTeam(u, b)
    \/ \E u \in TeamCallers, pk \in TeamIds, b \in TeamBodies :
          UpdateTeam(u, pk, b)
    \/ \E u \in TeamCallers, pk \in TeamIds : DeleteTeam(u, pk)

NextTeam ==
    TeamRequest /\ UNCHANGED <<chatVars, req, taskVars, accountVars>>

SpecTeam == InitChat /\ [][NextTeam]_vars

\* ----------------------------------------------------- set password
\* SetPasswordAPI.post runs in two steps that other requests can come
\* between: is_valid, which reads the user row, and save, which writes it.

\* AbstractBaseUser.has_usable_password
has_usable_password(c) == c.usable

\* serializer.is_valid: the fields, then SetPasswordSerializer.validate.
\* user is the row that user_id and email of the body name, NoUser when
\* there is none.
SetPasswordValidate(p, user, password, bodyValid) ==
    /\ pwreq[p].pc = "idle"
    /\ IF ~bodyValid \/ user = NoUser \/ has_usable_password(credential[user])
       THEN /\ resp' = 400
            /\ UNCHANGED pwreq
       ELSE /\ pwreq' = [pwreq EXCEPT ![p] = [pc |-> "save", user |-> user,
                                             password |-> password]]
            /\ UNCHANGED resp
    /\ UNCHANGED <<credential, is_active>>
    /\ UNCHANGED <<chatVars, req, taskVars, teamVars>>

\* SetPasswordSerializer.save and the response
SetPasswordSave(p, salt) ==
    /\ pwreq[p].pc = "save"
    /\ credential' = [credential EXCEPT ![pwreq[p].user] =
                          make_password(pwreq[p].password, salt)]
    /\ is_active' = [is_active EXCEPT ![pwreq[p].user] = TRUE]
    /\ resp' = 200
    /\ pwreq' = [pwreq EXCEPT ![p] = PwIdle]
    /\ UNCHANGED <<chatVars, req, taskVars, teamVars>>

\* The accounts as they can be before a request: made without a password
\* (CreateUserSerializer, the admin form) or with one (create_user), active
\* or not.
InitPassword ==
    /\ InitStore
    /\ credential \in [Accounts -> Credentials]
    /\ is_active \in [Accounts -> BOOLEAN]

NextPassword ==
    \E p \in Procs :
        \/ \E u \in Accounts \cup {NoUser}, pw \in Passwords, v \in BOOLEAN :
              SetPasswordValidate(p, u, pw, v)
        \/ \E s \in Salts : SetPasswordSave(p, s)

SpecPassword == InitPassword /\ [][NextPassword]_vars

\* ------------------------------------------------------------- claims

\* The conversation rows of the unordered pair {a, b}.
RowsOfPair(a, b) == {c \in conversations : {c.user1, c.user2} = {a, b}}

\* C1: in every state reached by interleaved sendMessage, history, explicit
\* creation and append requests, the store holds at most one Conversation
\* row for each unordered pair of users.
C1_OneRowPerPair ==
    \A c1, c2 \in conversations :
        {c1.user1, c1.user2} = {c2.user1, c2.user2} => c1 = c2

\* A request lost the race for its pair (its insert hit the constraint),
\* finished all the same, and the pair has a row.
C1_Witness ==
    \E p \in Procs :
        /\ req[p].conflict /\ req[p].pc = "done"
        /\ RowsOfPair(req[p].caller, req[p].other) # {}

\* Two sendMessage requests of different workers, between the same two
\* users, both started while the pair had no conversation.
RacingSends(p, q) ==
    /\ p # q
    /\ req[p].op = "send" /\ req[q].op = "send"
    /\ req[p].fresh /\ req[q].fresh
    /\ {req[p].caller, req[p].other} = {req[q].caller, req[q].other}

\* C3: no sendMessage request ends in an error, under any interleaving; and
\* once two racing sendMessage requests have both finished, the pair has
\* exactly one Conversation row and both messages belong to it.
C3_RaceRecovered ==
    /\ \A p \in Procs : req[p].op = "send" => req[p].pc # "error"
    /\ \A p, q \in Procs :
          (RacingSends(p, q) /\ req[p].pc = "done" /\ req[q].pc = "done") =>
              /\ Cardinality(RowsOfPair(req[p].caller, req[p].other)) = 1
              /\ \A m \in messages :
                    m.id \in {req[p].msg, req[q].msg} =>
                        \E c \in RowsOfPair(req[p].caller, req[p].other) :
                            m.conversation = c.id
              /\ \E m1, m2 \in messages :
                    m1.id = req[p].msg /\ m2.id = req[q].msg /\ m1 # m2

\* Two racing sendMessage requests in opposite directions have both
\* finished, and one of them had hit the uniqueness conflict on its create.
C3_Witness ==
    \E p, q \in Procs :
        /\ RacingSends(p, q)
        /\ req[p].caller = req[q].other /\ req[p].caller # req[p].other
        /\ req[p].pc = "done" /\ req[q].pc = "done"
        /\ req[p].conflict

\* The conversation id counter after a get_or_create_conversation call.
NextIdAfter(goc) == IF goc.created THEN nextConvId + 1 ELSE nextConvId

\* C2: for all users A and B, in every store state, the call
\* get_or_create_conversation(A, B) followed by get_or_create_conversation(B, A)
\* succeeds twice and returns the same Conversation row, the second call
\* creating nothing, whether or not the row existed before the first.
C2_SameRowEitherOrder ==
    \A a, b \in Users :
        LET first == GetOrCreateConversation(conversations, nextConvId, a, b)
            second == GetOrCreateConversation(first.convs, NextIdAfter(first), b, a)
        IN /\ first.ok /\ second.ok
           /\ second.row = first.row
           /\ ~second.created
           /\ second.convs = first.convs

\* Two members have written to each other, one message in each direction,
\* and both messages are in the same conversation row.
C2_Witness ==
    /\ resp = 201
    /\ \E l1, l2 \in sentLog :
          /\ l1.from < l1.to /\ l2.from = l1.to /\ l2.to = l1.from
          /\ \E m1, m2 \in messages :
                /\ m1.id = l1.id /\ m2.id = l2.id
                /\ m1.conversation = m2.conversation

\* C8: listMessages(caller, C) answers the empty list, and only that,
\* whenever caller is neither user1 nor user2 of conversation C.
C8_OutsiderGetsNothing ==
    \A c \in conversations : \A u \in Users \ {c.user1, c.user2} :
        MessageByConversationList(conversations, messages, u, c.id)
            = {Reply(200, <<>>)}

\* A conversation holds a message, some user is not one of its two
\* participants, and a read has just been answered.
C8_Witness ==
    /\ resp = 200
    /\ \E c \in conversations :
          /\ Users \ {c.user1, c.user2} # {}
          /\ MessagesOf(messages, c.id) # {}

\* The timestamp of the message with this id.
TimestampOf(id) == (CHOOSE m \in messages : m.id = id).timestamp

\* The ids of the messages sent with sendMessage between a and b.
SentBetween(a, b) ==
    {l.id : l \in {x \in sentLog : {x.from, x.to} = {a, b}}}

\* The answers a participant gets for the pair {a, b}: from the history
\* read, and from listMessages on each conversation row of the pair.
AnswersFor(a, b) ==
    {out.reply : out \in ChatHistoryView(conversations, nextConvId, messages, a, b)}
    \cup UNION {MessageByConversationList(conversations, messages, a, c.id) :
                  c \in {x \in conversations : {x.user1, x.user2} = {a, b}}}

\* The set of ids a sequence of ids lists.
Listed(items) == {items[i] : i \in DOMAIN items}

\* Whether the sequence lists nothing twice.
NoRepeat(items) == \A i, j \in DOMAIN items : i # j => items[i] # items[j]

\* The messages sent between a and b are all in one conversation, which
\* holds nothing but them (nothing was appended to it by other means).
OnlySentIn(a, b) ==
    /\ SentBetween(a, b) # {}
    /\ \E c \in conversations :
          {m.id : m \in MessagesOf(messages, c.id)} = SentBetween(a, b)

\* C9 (as amended): after sendMessage calls between A and B in either
\* direction, all the messages sent are in one and the same conversation,
\* and every history or listMessages answer to a participant lists exactly
\* those messages, each once, in non-decreasing timestamp order.
C9_HistoryByTimestamp ==
    \A a, b \in Users :
        SentBetween(a, b) # {} =>
            /\ \E c \in conversations :
                  \A m \in messages :
                      m.id \in SentBetween(a, b) => m.conversation = c.id
            /\ \A r \in AnswersFor(a, b) :
                  /\ r.status = 200
                  /\ NoRepeat(r.items)
                  /\ SentBetween(a, b) \subseteq Listed(r.items)
                  /\ OnlySentIn(a, b) => Listed(r.items) = SentBetween(a, b)
                  /\ \A i, j \in DOMAIN r.items :
                        i < j => TimestampOf(r.items[i]) <= TimestampOf(r.items[j])

\* C9 (as claimed): the answers list the messages in the order in which
\* they were sent, that is by ascending id.
C9_HistoryInSentOrder ==
    \A a, b \in Users :
        OnlySentIn(a, b) =>
            \A r \in AnswersFor(a, b) :
                /\ Listed(r.items) = SentBetween(a, b)
                /\ \A i, j \in DOMAIN r.items : i < j => r.items[i] < r.items[j]

\* Two members have written to each other, one message in each direction,
\* the two messages carry different timestamps, and the history was read.
C9_Witness ==
    /\ resp = 200
    /\ \E l1, l2 \in sentLog :
          /\ l1.from # l1.to /\ l2.from = l1.to /\ l2.to = l1.from
          /\ TimestampOf(l1.id) < TimestampOf(l2.id)
          /\ OnlySentIn(l1.from, l1.to)

\* -------------------------------------------------------- task claims

\* C4: in every state reachable by createTask, updateTask and addSubtask,
\* every task whose parent_task is set has a parent whose own parent_task is
\* null (nesting depth at most 1).
C4_DepthAtMostOne ==
    \A t \in tasks :
        t.parent_task # NoTask =>
            \A p \in tasks : p.id = t.parent_task => p.parent_task = NoTask

\* An entry of a subtask list that cannot become a subtask: it fails the
\* serializer, or the database refuses its title.
InvalidEntry(e, enforced) ==
    ~e.valid \/ StoreRejects(SubtaskValidated(e), enforced)

\* C6: createTask is atomic in its subtask batch: with an invalid entry in
\* the list the operation fails and the table holds neither the new
\* top-level task nor any subtask of the batch; with every entry valid (and
\* the task's own fields valid) exactly one top-level task and one subtask
\* per entry are added, each subtask linked to the new task.
C6_CreateTaskAtomic ==
    [][\A u \in TaskCallers, m \in MainBodies,
          b \in Batches(EntryIds, MaxBatch), enforced \in BOOLEAN :
          CreateTask(u, m.title, m.valid, b, enforced) =>
              LET added == tasks' \ tasks
                  tops == {t \in added : t.parent_task = NoTask}
              IN /\ (\E i \in DOMAIN b : InvalidEntry(b[i], enforced)) =>
                        (resp' # 201 /\ tasks' = tasks)
                 /\ (m.valid /\ \A i \in DOMAIN b :
                                  ~InvalidEntry(b[i], enforced)) =>
                        /\ resp' = 201
                        /\ tasks \subseteq tasks'
                        /\ Cardinality(tops) = 1
                        /\ Cardinality(added) = 1 + Len(b)
                        /\ \A s \in added \ tops :
                              \E top \in tops : s.parent_task = top.id]_vars

\* Whether addSubtask may go ahead: the task pk exists, is the caller's and
\* has no parent.
Eligible(caller, pk) ==
    \E t \in tasks :
        t.id = pk /\ t.created_by = caller /\ t.parent_task = NoTask

\* C7: addSubtask creates a subtask only when the task named exists, is
\* owned by the caller and has parent_task null; in every other case
\* (missing task, somebody else's task, a task that has a parent) it answers
\* not-found and the set of tasks is unchanged.
C7_AddSubtaskOnlyUnderOwnTopLevelTask ==
    \A u \in TaskCallers, pk \in TaskIds, e \in Entries(EntryIds),
       enforced \in BOOLEAN :
        LET out == AddSubtaskView(tasks, nextTaskId, u, pk, e, enforced)
            added == out.rows \ tasks
        IN /\ out.rows # tasks =>
                  /\ Eligible(u, pk)
                  /\ tasks \subseteq out.rows
                  /\ Cardinality(added) = 1
                  /\ \A s \in added : s.parent_task = pk /\ s.created_by = u
           /\ ~Eligible(u, pk) => (out.status = 404 /\ out.rows = tasks)

\* A not-found answer has gone out, and the table holds all three kinds of
\* refused parent for some caller: an id not handed out, a task of somebody
\* else, and a subtask of the caller's own, each refused with a valid entry.
C7_Witness ==
    /\ resp = 404
    /\ \E u \in TaskCallers :
          LET e == [valid |-> TRUE, fits |-> TRUE, id |-> NoTask, title |-> "a"]
              Refused(pk) ==
                  AddSubtaskView(tasks, nextTaskId, u, pk, e, FALSE).status = 404
          IN /\ Refused(nextTaskId)
             /\ \E t \in tasks : t.created_by # u /\ Refused(t.id)
             /\ \E s \in tasks : /\ s.created_by = u
                                 /\ s.parent_task # NoTask
                                 /\ Refused(s.id)
             /\ \E p \in tasks :
                   /\ p.created_by = u
                   /\ AddSubtaskView(tasks, nextTaskId, u, p.id, e,
                                     FALSE).status = 201

\* -------------------------------------------------------- team claims

\* C5: createTeam succeeds only for an admin or a team lead: a createTeam
\* request by a user who is neither is denied and leaves the set of teams
\* unchanged.
C5_CreateTeamNeedsRole ==
    [][\A u \in Users, b \in TeamBodies :
          CreateTeam(u, b) =>
              /\ resp' = 201 => IsAdminOrTeamLead(u)
              /\ (~is_admin(u) /\ ~is_teamlead(u)) =>
                     (resp' # 201 /\ teams' = teams)]_vars

\* C10: an updateTeam or deleteTeam request by anybody but team.created_by
\* (an admin, a member of the team, nobody logged in) is rejected and leaves
\* the team table as it was; and no updateTeam, by anyone, changes
\* created_by of a team.
C10_OnlyCreatorChangesTeam ==
    \A u \in TeamCallers, pk \in TeamIds, b \in TeamBodies :
        LET upd == UpdateTeamView(teams, nextTeamId, u, pk, b)
            del == DeleteTeamView(teams, nextTeamId, u, pk)
        IN /\ \A t \in teams :
                 (t.id = pk /\ t.created_by # u) =>
                     /\ upd.status \notin {200, 201, 204}
                     /\ upd.rows = teams
                     /\ del.status \notin {200, 201, 204}
                     /\ del.rows = teams
           /\ \A t \in teams :
                 \E t2 \in upd.rows :
                     t2.id = t.id /\ t2.created_by = t.created_by

\* A change has been turned away with not-found while the table holds a team
\* of the team lead that has the admin and the third user as members: both
\* are refused the update and the delete, and the team lead is not, even
\* with a created_by key in the body.
C10_Witness ==
    /\ resp = 404
    /\ \E t \in teams :
          LET b == [valid |-> TRUE, name |-> "m", hasMembers |-> TRUE,
                    members |-> {}, created_by |-> 2]
          IN /\ t.created_by = 2
             /\ t.members = Users
             /\ \A u \in {1, 3} :
                   /\ UpdateTeamView(teams, nextTeamId, u, t.id, b).status = 404
                   /\ DeleteTeamView(teams, nextTeamId, u, t.id).status = 404
             /\ UpdateTeamView(teams, nextTeamId, 2, t.id, b).status = 200
             /\ DeleteTeamView(teams, nextTeamId, 2, t.id).status = 204

\* The row of team pk in a team table.
TeamRowOf(rows, pk) == CHOOSE t \in rows : t.id = pk

\* C11: updateTeam by the creator with a members list makes the membership
\* exactly that list, not its union with the old membership; an empty list
\* empties the membership, the creator included; without a members key the
\* membership stays as it was.
C11_UpdateReplacesMembers ==
    \A pk \in TeamIds, b \in TeamBodies :
        \A t \in teams :
            (t.id = pk /\ b.valid) =>
                LET out == UpdateTeamView(teams, nextTeamId, t.created_by, pk, b)
                    after == TeamRowOf(out.rows, pk)
                IN /\ out.status = 200
                   /\ \E r \in out.rows : r.id = pk
                   /\ b.hasMembers => after.members = b.members
                   /\ (b.hasMembers /\ b.members = {}) =>
                          t.created_by \notin after.members
                   /\ ~b.hasMembers => after.members = t.members

\* The creator has emptied the membership of a team with an update: the
\* table holds a team without members, which no create leaves behind, and
\* an update that names one user would leave just that user.
C11_Witness ==
    /\ resp = 200
    /\ \E t \in teams :
          LET b == [valid |-> TRUE, name |-> t.name, hasMembers |-> TRUE,
                    members |-> {3}, created_by |-> NoUser]
          IN /\ t.members = {}
             /\ TeamRowOf(UpdateTeamView(teams, nextTeamId, t.created_by,
                                         t.id, b).rows, t.id).members = {3}

\* ---------------------------------------------------- account claims

\* C12: set-password sets a credential at most once. A request for a user
\* whose credential is usable fails with a validation error and changes
\* nothing; and once a credential is usable no set-password request changes
\* it or is_active again.
C12_PasswordSetOnce ==
    [][/\ \A p \in Procs, u \in Accounts, pw \in Passwords, v \in BOOLEAN :
             (has_usable_password(credential[u])
                /\ SetPasswordValidate(p, u, pw, v)) =>
                 (resp' = 400 /\ pwreq' = pwreq)
       /\ \A u \in Accounts :
             has_usable_password(credential[u]) =>
                 /\ credential'[u] = credential[u]
                 /\ is_active'[u] = is_active[u]]_vars

\* The subtasks of task pk in a task table.
SubtasksOf(rows, pk) == {t \in rows : t.parent_task = pk}

\* The entries of a batch whose id names a subtask task pk already has.
Resubmitted(b, pk) ==
    {i \in DOMAIN b : \E s \in SubtasksOf(tasks, pk) : s.id = b[i].id}

\* C13: updateTask upserts subtasks by id: an entry that carries the id of a
\* subtask the task already has rewrites that subtask and adds no row, and
\* every other entry adds exactly one subtask of the task; so resubmitting
\* a subtask with its id leaves the number of subtasks as it was.
C13_UpdateUpsertsById ==
    [][resp' = 200 =>
          \A u \in TaskCallers, pk \in TaskIds, m \in MainBodies,
             b \in Batches(EntryIds, Room), enforced \in BOOLEAN :
              UpdateTask(u, pk, m.title, m.valid, b, enforced) =>
                  /\ Cardinality(SubtasksOf(tasks', pk)) =
                         Cardinality(SubtasksOf(tasks, pk))
                           + Cardinality(DOMAIN b \ Resubmitted(b, pk))
                  /\ \A s \in SubtasksOf(tasks, pk) :
                         \E s2 \in SubtasksOf(tasks', pk) : s2.id = s.id]_vars

\* ------------------------------------------------- more chat claims

\* C14: in every reachable state the sender of each message is one of the
\* two participants of the conversation the message belongs to, whether the
\* message came from sendMessage or was appended through the messages
\* endpoint of the conversation.
C14_SenderIsParticipant ==
    \A m \in messages :
        \E c \in conversations :
            c.id = m.conversation /\ m.sender \in {c.user1, c.user2}

\* C15: in every reachable state each conversation row is a canonical pair
\* of two distinct users, user1.id < user2.id, whether it came from
\* sendMessage (a message to oneself included), from the history read or
\* from the explicit creation of a conversation.
C15_CanonicalDistinctPair ==
    \A c \in conversations : c.user1 < c.user2

\* C16: a request that fails validation changes nothing: a request answered
\* with a validation error leaves conversations and messages as they were,
\* and so does a sendMessage whose body has no text, also between two users
\* who have no conversation yet.
C16_InvalidRequestChangesNothing ==
    [][/\ resp' = 400 =>
             (conversations' = conversations /\ messages' = messages)
       /\ \A u \in Users, r \in Users :
             (u # r /\ SendMessage(u, r, FALSE)) =>
                 (conversations' = conversations /\ messages' = messages)]_vars

\* C17: the reads create no conversation: the history read, listMessages
\* and the list of conversations leave the set of conversations as it was,
\* also when the caller and the other user have no conversation yet; a row
\* comes into being only through sendMessage or the explicit creation.
C17_ReadsCreateNothing ==
    [][/\ \A u \in Users, o \in Users \cup {NoUser} :
             ChatHistory(u, o) => conversations' = conversations
       /\ \A u \in Users, c \in ConvIds :
             ListMessages(u, c) => conversations' = conversations
       /\ \A u \in Users :
             ListConversations(u) => conversations' = conversations]_vars

====
